---- MODULE Spec2Model ----
(***************************************************************************)
(* aco2gpl.c: converts a Photoshop palette (.aco) read from stdin to a     *)
(* GIMP palette (.gpl) written to stdout.                                  *)
(*                                                                         *)
(* The model follows the C source statement by statement.  Every call of   *)
(* readword() is one step; the bytes it gets are chosen when it is called  *)
(* (the input stream is an arbitrary finite byte stream, the part not yet  *)
(* read is not yet decided).  Names are C strings, modelled as sequences   *)
(* of byte values.                                                         *)
(***************************************************************************)
EXTENDS Integers, Sequences, FiniteSets, TLC

VARIABLES
    profile,    \* which family of input streams this run reads (see below)
    pc,         \* program point
    status,     \* exit status of the process, -1 while it runs
    out,        \* what printf has been given for stdout, one element per line
    err,        \* what has been written to stderr, one element per message
    eof,        \* the input stream has no byte left
    cursor,     \* number of bytes consumed from stdin
    last,       \* the last readword() call: bytes obtained and result
    starved,    \* history: the record set a word of which was short of bytes, or 0
    call,       \* main: which readaco() call is running, 1 or 2
    aco1,       \* main: result of the first readaco()
    aco2,       \* main: result of the second readaco()
    aco,        \* readaco: the palette under construction
    ver,        \* readaco: version word
    colors,     \* readaco: declared number of colors
    j,          \* readaco: loop index
    cc,         \* convertcolor: its frame (locals and out-parameters)
    gg,         \* gengpl: its frame (palette printed, j, i)
    rec,        \* history: the words of the color record being read
    hist        \* history: per record set, its header and its records

vars == <<profile, pc, status, out, err, eof, cursor, last, starved, call, aco1, aco2,
          aco, ver, colors, j, cc, gg, rec, hist>>

(***************************************************************************)
(* Bounds of the explored input streams.                                   *)
(***************************************************************************)
MaxRecords == 2     \* profile "colors": color records declared in a stream
MaxNameLen == 3     \* profile "names": largest short name-length word
LongName == 257     \* profile "names": a name-length word beyond the buffer

\* The two families of input streams:
\*   "colors": up to two record sets of version 1 or 2 (or an unknown one),
\*             MaxRecords color records in all, short names;
\*   "names":  version 2, a single color record, whose name is of any
\*             length up to MaxNameLen or of length LongName.
\* Either may end early, on a word boundary or inside a word.
Profiles == {"colors", "names"}

\* value of an uninitialised byte (stale stack byte, fresh heap byte)
StaleBytes == {0, 1}
UninitBytes == {0, 170}

(***************************************************************************)
(* Program constants.                                                      *)
(***************************************************************************)
BufLen == 256       \* char name[256] in readaco
Cols == 4           \* int cols = 4 in gengpl
Space == 32         \* ' '
Killed == 128 + 11  \* status of a process killed by SIGSEGV

NULL == <<-1>>      \* the null pointer, as a name
WILD == <<-2>>      \* an indeterminate non-null pointer, as a name
NullText == <<40, 110, 117, 108, 108, 41>>   \* "(null)"
GarbageText == <<63>>                        \* whatever a wild pointer hits

\* readaco() returning NULL
NoAco == [ver |-> 0, len |-> 0, color |-> <<>>]

NoFrame == [cspace |-> 0, r |-> 0, g |-> 0, b |-> 0, namelen |-> 0, k |-> 0,
            name |-> <<>>, buflen |-> 0, ret |-> 0]
NoGen == [sel |-> 0, j |-> 0, i |-> 0]
NoRec == [cs |-> -1, w |-> <<>>, N |-> -1, units |-> <<>>, nwords |-> 0,
          from |-> 0, to |-> 0]
NoSet == [ver |-> 0, whole |-> FALSE, count |-> 0, recs |-> <<>>]

(***************************************************************************)
(* The words the input stream may hold at each place.                      *)
(***************************************************************************)
Declared == (IF hist[1].count > 0 THEN hist[1].count ELSE 0)
            + (IF hist[2].count > 0 THEN hist[2].count ELSE 0)

VersionWords == IF profile = "names" THEN {2} ELSE {1, 2, 3}

\* "colors": a stream declares MaxRecords color records in all, so the
\* count word of a record set is bounded by what the stream has left
CountWords ==
    LET m == IF profile = "names" THEN 1 ELSE MaxRecords
    IN  0 .. (IF m > Declared THEN m - Declared ELSE 0)

CsWords == {0, 7}

\* the words of the R, G and B components (c = 1, 2, 3)
CompWords(c) ==
    IF c = 1 /\ profile = "colors" THEN {255, 65280}
    ELSE IF c = 1 THEN {65280}
    ELSE IF c = 2 THEN {256}
    ELSE {65535}

PadWords == {0}

NameLenWords ==
    IF profile = "names" THEN (0 .. MaxNameLen) \cup {LongName} ELSE {1, 2}

\* the i-th unit of a name, i counted from 1
UnitWords(i) ==
    IF profile = "names" /\ i = 1 THEN {0, 65, 300}
    ELSE IF profile = "names" /\ i = 2 THEN {0, 66, 300}
    ELSE {65}

(***************************************************************************)
(* readword (lines 40-51).  fread(buf, 1, 2, fp) stores n bytes; with n=1  *)
(* buf[1] keeps its uninitialised value.                                   *)
(***************************************************************************)
readword(n, buf0, buf1) ==
    IF n = 0 THEN -1 ELSE buf1 + buf0 * 256    \* buf[1] | buf[0] << 8

\* The possible results of one fread of two bytes, the stream holding a
\* word of W next, or only its first byte, or nothing.
Fread(W) ==
    IF eof
    THEN {[n |-> 0, buf0 |-> 0, buf1 |-> 0]}
    ELSE {[n |-> 0, buf0 |-> 0, buf1 |-> 0]}
         \cup {[n |-> 1, buf0 |-> w \div 256, buf1 |-> s] :
                  w \in W, s \in StaleBytes}
         \cup {[n |-> 2, buf0 |-> w \div 256, buf1 |-> w % 256] : w \in W}

Word(f) == readword(f.n, f.buf0, f.buf1)

\* the effect of the fread on the stream
Consume(f) ==
    /\ eof' = (eof \/ f.n < 2)
    /\ cursor' = cursor + f.n
    /\ last' = [n |-> f.n, buf0 |-> f.buf0, buf1 |-> f.buf1,
                ret |-> Word(f), from |-> cursor]
    /\ starved' = (IF starved = 0 /\ f.n < 2 /\ pc # "ra_ver" THEN call ELSE starved)

(***************************************************************************)
(* Process termination and diagnostics.                                    *)
(***************************************************************************)
Goto(p) == pc' = p /\ UNCHANGED <<status, out, err>>

Diag(p, m) == pc' = p /\ err' = Append(err, m) /\ UNCHANGED <<status, out>>

\* a wrong exit path: the diagnostic printed with printf, on stdout
FatalOnStdout(m) ==
    /\ pc' = "exited"
    /\ status' = 1
    /\ out' = Append(out, m)
    /\ UNCHANGED err

\* fprintf(stderr, msg); exit(1);   (lines 31-32, 60-61, 168-169)
Fatal(m) ==
    /\ pc' = "exited"
    /\ status' = 1
    /\ err' = Append(err, m)
    /\ UNCHANGED out

EofMsg == <<"Unexpected end of file!">>
OomMsg == <<"Out of memory!">>

Halted == pc \in {"exited", "crashed"}

(***************************************************************************)
(* Initial state: main is about to make its first readaco(stdin) call.     *)
(***************************************************************************)
Init ==
    /\ profile \in Profiles
    /\ pc = "ra_ver"
    /\ status = -1
    /\ out = <<>>
    /\ err = <<>>
    /\ eof = FALSE
    /\ cursor = 0
    /\ last = [n |-> 2, buf0 |-> 0, buf1 |-> 0, ret |-> 0, from |-> -1]
    /\ starved = 0
    /\ call = 1
    /\ aco1 = NoAco
    /\ aco2 = NoAco
    /\ aco = NoAco
    /\ ver = 0
    /\ colors = 0
    /\ j = 0
    /\ cc = NoFrame
    /\ gg = NoGen
    /\ rec = NoRec
    /\ hist = [c \in 1..2 |-> NoSet]

(***************************************************************************)
(* readaco (lines 152-196)                                                 *)
(***************************************************************************)
\* lines 160-170: ver = readword(infp); NULL on end of file; exit on an
\* unknown version
readaco_version ==
    /\ pc = "ra_ver"
    /\ \E f \in Fread(VersionWords) :
        /\ Consume(f)
        /\ ver' = Word(f)
        /\ IF Word(f) = -1
           THEN /\ Goto("main_ret")
                /\ UNCHANGED hist
           ELSE IF Word(f) \in {1, 2}
           THEN /\ Diag("ra_count", <<"reading ACO stream version:", Word(f)>>)
                /\ hist' = [hist EXCEPT ![call].ver = Word(f),
                                        ![call].whole = (f.n = 2)]
           ELSE /\ Fatal(<<"reading ACO stream version:",
                          "Unknown ACO file version", Word(f)>>)
                /\ UNCHANGED hist
    /\ UNCHANGED <<profile, call, aco1, aco2, aco, colors, j, cc, gg, rec>>

\* lines 173-174: colors = readword(infp), not checked for end of file
readaco_count ==
    /\ pc = "ra_count"
    /\ \E f \in Fread(CountWords) :
        /\ Consume(f)
        /\ colors' = Word(f)
        /\ hist' = [hist EXCEPT ![call].count = Word(f)]
        /\ Diag("ra_alloc", <<"colors in this file", Word(f)>>)
    /\ UNCHANGED <<profile, call, aco1, aco2, aco, ver, j, cc, gg, rec>>

\* sizeof(struct acoentry)*len as a size_t: a negative len is a request no
\* malloc can serve
Unservable(len) == len < 0

\* lines 177-180 and 27-35: the two acomalloc calls; malloc may fail
readaco_alloc ==
    /\ pc = "ra_alloc"
    /\ \E fails \in BOOLEAN :
        /\ Unservable(colors) => fails
        /\ IF fails
           THEN /\ Fatal(OomMsg)
                /\ UNCHANGED <<aco, j>>
           ELSE /\ aco' = [ver |-> ver, len |-> colors, color |-> <<>>]
                /\ j' = 0
                /\ Goto("ra_loop")
    /\ UNCHANGED <<profile, eof, cursor, last, starved, call, aco1, aco2, ver, colors,
                   cc, gg, rec, hist>>

\* line 183: the loop test; line 187: the call of convertcolor with
\* buflen 256; line 195: return aco
readaco_loop ==
    /\ pc = "ra_loop"
    /\ IF j < colors
       THEN /\ cc' = [NoFrame EXCEPT !.buflen = BufLen]
            /\ rec' = [NoRec EXCEPT !.from = cursor]
            /\ Goto("cc_cspace")
       ELSE /\ Goto("main_ret")
            /\ UNCHANGED <<cc, rec>>
    /\ UNCHANGED <<profile, eof, cursor, last, starved, call, aco1, aco2, aco, ver,
                   colors, j, gg, hist>>

(***************************************************************************)
(* convertcolor (lines 96-143).  Every mustreadword (lines 55-64) exits    *)
(* with "Unexpected end of file!" when readword returns -1.                *)
(***************************************************************************)
\* a wrong line 117: the low byte instead of the high one
ScaleLowByte(w) == w % 256

\* line 117: 16 bit component to 8 bit
Scale(w) == w \div 256

\* a wrong lines 132-133: the low byte of a unit above 0xff is kept
Latin1LowByte(c) == c % 256

\* lines 132-133: a unit above 0xff becomes a space
Latin1(c) == IF c > 255 THEN Space ELSE c

\* a wrong line 108: one word too few, as if the count left out the nul-term
SkipCountShort(namelen) == namelen - 1

\* line 108: the number of name words the non-RGB path discards
SkipCount(namelen) == namelen

\* line 128: namelen-- before the name loop
NameUnits(namelen) == namelen - 1

\* lines 134-137: store c when the buffer has room for it and the nul-term
Store(name, buflen, c) == IF buflen > 1 THEN Append(name, c) ELSE name

Counted == [rec EXCEPT !.nwords = @ + 1]    \* history: one more word read

\* line 111-112
Return1 ==
    /\ Diag("ra_ret", <<"Non RGB color skipped", cc.cspace>>)

\* line 99
convertcolor_cspace ==
    /\ pc = "cc_cspace"
    /\ \E f \in Fread(CsWords) :
        /\ Consume(f)
        /\ IF Word(f) = -1
           THEN Fatal(EofMsg) /\ UNCHANGED <<cc, rec>>
           ELSE /\ cc' = [cc EXCEPT !.cspace = Word(f), !.k = 0]
                /\ rec' = [Counted EXCEPT !.cs = Word(f)]
                /\ Goto(IF Word(f) # 0 THEN "cc_skip4" ELSE "cc_r")
    /\ UNCHANGED <<profile, call, aco1, aco2, aco, ver, colors, j, gg, hist>>

\* line 104: for (j = 0; j < 4; j++) mustreadword(fp);  then lines 105, 111
convertcolor_skip4 ==
    /\ pc = "cc_skip4"
    /\ \E f \in Fread(PadWords) :
        /\ Consume(f)
        /\ IF Word(f) = -1
           THEN Fatal(EofMsg) /\ UNCHANGED <<cc, rec>>
           ELSE /\ rec' = Counted
                /\ IF cc.k + 1 < 4
                   THEN /\ cc' = [cc EXCEPT !.k = @ + 1]
                        /\ Goto("cc_skip4")
                   ELSE IF ver = 2
                   THEN /\ cc' = [cc EXCEPT !.k = 0]
                        /\ Goto("cc_skipx")
                   ELSE /\ cc' = [cc EXCEPT !.k = 0, !.ret = 1]
                        /\ Return1
    /\ UNCHANGED <<profile, call, aco1, aco2, aco, ver, colors, j, gg, hist>>

\* line 106
convertcolor_skipx ==
    /\ pc = "cc_skipx"
    /\ \E f \in Fread(PadWords) :
        /\ Consume(f)
        /\ IF Word(f) = -1
           THEN Fatal(EofMsg) /\ UNCHANGED rec
           ELSE rec' = Counted /\ Goto("cc_skiplen")
    /\ UNCHANGED <<profile, call, aco1, aco2, aco, ver, colors, j, cc, gg, hist>>

\* line 107
convertcolor_skiplen ==
    /\ pc = "cc_skiplen"
    /\ \E f \in Fread(NameLenWords) :
        /\ Consume(f)
        /\ IF Word(f) = -1
           THEN Fatal(EofMsg) /\ UNCHANGED <<cc, rec>>
           ELSE /\ cc' = [cc EXCEPT !.namelen = Word(f), !.k = 0]
                /\ rec' = [Counted EXCEPT !.N = Word(f)]
                /\ Goto("cc_skipname")
    /\ UNCHANGED <<profile, call, aco1, aco2, aco, ver, colors, j, gg, hist>>

\* lines 108-112: for (j = 0; j < namelen; j++) mustreadword(fp);  return 1
convertcolor_skipname ==
    /\ pc = "cc_skipname"
    /\ IF cc.k < SkipCount(cc.namelen)
       THEN \E f \in Fread(UnitWords(cc.k + 1)) :
            /\ Consume(f)
            /\ IF Word(f) = -1
               THEN Fatal(EofMsg) /\ UNCHANGED <<cc, rec>>
               ELSE /\ cc' = [cc EXCEPT !.k = @ + 1]
                    /\ rec' = Counted
                    /\ Goto("cc_skipname")
       ELSE /\ cc' = [cc EXCEPT !.ret = 1]
            /\ Return1
            /\ UNCHANGED <<eof, cursor, last, starved, rec>>
    /\ UNCHANGED <<profile, call, aco1, aco2, aco, ver, colors, j, gg, hist>>

\* line 117
convertcolor_r ==
    /\ pc = "cc_r"
    /\ \E f \in Fread(CompWords(1)) :
        /\ Consume(f)
        /\ IF Word(f) = -1
           THEN Fatal(EofMsg) /\ UNCHANGED <<cc, rec>>
           ELSE /\ cc' = [cc EXCEPT !.r = Scale(Word(f))]
                /\ rec' = [Counted EXCEPT !.w = Append(@, Word(f))]
                /\ Goto("cc_g")
    /\ UNCHANGED <<profile, call, aco1, aco2, aco, ver, colors, j, gg, hist>>

\* line 118
convertcolor_g ==
    /\ pc = "cc_g"
    /\ \E f \in Fread(CompWords(2)) :
        /\ Consume(f)
        /\ IF Word(f) = -1
           THEN Fatal(EofMsg) /\ UNCHANGED <<cc, rec>>
           ELSE /\ cc' = [cc EXCEPT !.g = Scale(Word(f))]
                /\ rec' = [Counted EXCEPT !.w = Append(@, Word(f))]
                /\ Goto("cc_b")
    /\ UNCHANGED <<profile, call, aco1, aco2, aco, ver, colors, j, gg, hist>>

\* line 119
convertcolor_b ==
    /\ pc = "cc_b"
    /\ \E f \in Fread(CompWords(3)) :
        /\ Consume(f)
        /\ IF Word(f) = -1
           THEN Fatal(EofMsg) /\ UNCHANGED <<cc, rec>>
           ELSE /\ cc' = [cc EXCEPT !.b = Scale(Word(f))]
                /\ rec' = [Counted EXCEPT !.w = Append(@, Word(f))]
                /\ Goto("cc_z")
    /\ UNCHANGED <<profile, call, aco1, aco2, aco, ver, colors, j, gg, hist>>

\* lines 120-121: skip Z; a version 1 record ends here
convertcolor_z ==
    /\ pc = "cc_z"
    /\ \E f \in Fread(PadWords) :
        /\ Consume(f)
        /\ IF Word(f) = -1
           THEN Fatal(EofMsg) /\ UNCHANGED <<cc, rec>>
           ELSE /\ rec' = Counted
                /\ IF ver = 1
                   THEN cc' = [cc EXCEPT !.ret = 0] /\ Goto("ra_ret")
                   ELSE UNCHANGED cc /\ Goto("cc_unk")
    /\ UNCHANGED <<profile, call, aco1, aco2, aco, ver, colors, j, gg, hist>>

\* line 125
convertcolor_unk ==
    /\ pc = "cc_unk"
    /\ \E f \in Fread(PadWords) :
        /\ Consume(f)
        /\ IF Word(f) = -1
           THEN Fatal(EofMsg) /\ UNCHANGED rec
           ELSE rec' = Counted /\ Goto("cc_namelen")
    /\ UNCHANGED <<profile, call, aco1, aco2, aco, ver, colors, j, cc, gg, hist>>

\* lines 127-128
convertcolor_namelen ==
    /\ pc = "cc_namelen"
    /\ \E f \in Fread(NameLenWords) :
        /\ Consume(f)
        /\ IF Word(f) = -1
           THEN Fatal(EofMsg) /\ UNCHANGED <<cc, rec>>
           ELSE /\ cc' = [cc EXCEPT !.namelen = NameUnits(Word(f))]
                /\ rec' = [Counted EXCEPT !.N = Word(f)]
                /\ Goto("cc_name")
    /\ UNCHANGED <<profile, call, aco1, aco2, aco, ver, colors, j, gg, hist>>

\* lines 129-140: the name loop, then *name = 0
convertcolor_name ==
    /\ pc = "cc_name"
    /\ IF cc.namelen > 0
       THEN \E f \in Fread(UnitWords(Len(rec.units) + 1)) :
            /\ Consume(f)
            /\ IF Word(f) = -1
               THEN Fatal(EofMsg) /\ UNCHANGED <<cc, rec>>
               ELSE /\ cc' = [cc EXCEPT
                              !.name = Store(@, cc.buflen, Latin1(Word(f))),
                              !.buflen = IF @ > 1 THEN @ - 1 ELSE @,
                              !.namelen = @ - 1]
                    /\ rec' = [Counted EXCEPT
                                  !.units = Append(@, Word(f))]
                    /\ Goto("cc_name")
       ELSE /\ Goto("cc_term")
            /\ UNCHANGED <<eof, cursor, last, starved, cc, rec>>
    /\ UNCHANGED <<profile, call, aco1, aco2, aco, ver, colors, j, gg, hist>>

\* lines 141-142: skip the nul term, return 0
convertcolor_term ==
    /\ pc = "cc_term"
    /\ \E f \in Fread(PadWords) :
        /\ Consume(f)
        /\ IF Word(f) = -1
           THEN Fatal(EofMsg) /\ UNCHANGED <<cc, rec>>
           ELSE /\ rec' = Counted
                /\ cc' = [cc EXCEPT !.ret = 0]
                /\ Goto("ra_ret")
    /\ UNCHANGED <<profile, call, aco1, aco2, aco, ver, colors, j, gg, hist>>

(***************************************************************************)
(* readaco, after convertcolor returned (lines 187-194)                    *)
(***************************************************************************)
\* strdup (line 193) copies the C string held by the buffer: the bytes
\* convertcolor wrote, up to the nul-term of line 140 or an earlier zero byte
CStr(buf) ==
    LET zs == {i \in 1..Len(buf) : buf[i] = 0}
    IN  IF zs = {} THEN buf
        ELSE SubSeq(buf, 1, (CHOOSE i \in zs : \A x \in zs : i <= x) - 1)

\* history: the record just read, and where the cursor is after it
Logged == [hist EXCEPT ![call].recs = Append(@, [rec EXCEPT !.to = cursor])]

\* line 187: convertcolor returned non-zero: continue, slot j is not written
readaco_continue ==
    /\ pc = "ra_ret"
    /\ cc.ret # 0
    /\ j' = j + 1
    /\ cc' = NoFrame
    /\ rec' = NoRec
    /\ hist' = Logged
    /\ Goto("ra_loop")
    /\ UNCHANGED <<profile, eof, cursor, last, starved, call, aco1, aco2, aco, ver, colors, gg>>

\* lines 188-193: slot j is written; strdup may return NULL
readaco_store ==
    /\ pc = "ra_ret"
    /\ cc.ret = 0
    /\ \E nm \in (IF ver = 2 THEN {CStr(cc.name), NULL} ELSE {NULL}) :
        aco' = [aco EXCEPT !.color =
                   ((j + 1) :> [r |-> cc.r, g |-> cc.g, b |-> cc.b, name |-> nm])
                   @@ @]
    /\ j' = j + 1
    /\ cc' = NoFrame
    /\ rec' = NoRec
    /\ hist' = Logged
    /\ Goto("ra_loop")
    /\ UNCHANGED <<profile, eof, cursor, last, starved, call, aco1, aco2, ver, colors, gg>>

(***************************************************************************)
(* main (lines 198-213)                                                    *)
(***************************************************************************)
\* lines 205-210: which palette is printed; 0 for none
Select(a1, a2) == IF a2 # NoAco THEN 2 ELSE IF a1 # NoAco THEN 1 ELSE 0

\* line 202: aco1 = readaco(stdin), then line 203 calls readaco again
main_first ==
    /\ pc = "main_ret"
    /\ call = 1
    /\ aco1' = aco
    /\ aco' = NoAco
    /\ call' = 2
    /\ ver' = 0 /\ colors' = 0 /\ j' = 0
    /\ Goto("ra_ver")
    /\ UNCHANGED <<profile, eof, cursor, last, starved, aco2, cc, gg, rec, hist>>

\* lines 203-210: aco2 = readaco(stdin); "Generating GPL..."; the choice
main_second ==
    /\ pc = "main_ret"
    /\ call = 2
    /\ aco2' = aco
    /\ aco' = NoAco
    /\ call' = 3
    /\ ver' = 0 /\ colors' = 0 /\ j' = 0
    /\ gg' = [NoGen EXCEPT !.sel = Select(aco1, aco)]
    /\ Diag(IF Select(aco1, aco) = 0 THEN "main_nodata" ELSE "gen_header",
            <<"Generating GPL...">>)
    /\ UNCHANGED <<profile, eof, cursor, last, starved, aco1, cc, rec, hist>>

\* line 210
main_nodata ==
    /\ pc = "main_nodata"
    /\ Diag("main_done", <<"No data!">>)
    /\ UNCHANGED <<profile, eof, cursor, last, starved, call, aco1, aco2, aco, ver,
                   colors, j, cc, gg, rec, hist>>

\* lines 211-212
main_done ==
    /\ pc = "main_done"
    /\ pc' = "exited"
    /\ status' = 0
    /\ err' = Append(err, <<"Done.">>)
    /\ UNCHANGED <<profile, out, eof, cursor, last, starved, call, aco1, aco2, aco, ver,
                   colors, j, cc, gg, rec, hist>>

(***************************************************************************)
(* gengpl (lines 66-88)                                                    *)
(***************************************************************************)
Printed == IF gg.sel = 2 THEN aco2 ELSE aco1

HeaderLine == [kind |-> "header", r |-> 0, g |-> 0, b |-> 0, text |-> <<>>]

\* aco->color[k], k counted from 0.  A slot readaco never wrote holds what
\* malloc returned: any bytes, any pointer.  The explored contents are the
\* fills of one byte value: zero (a null name) or another (a wild name).
Slot(a, k) ==
    IF (k + 1) \in DOMAIN a.color
    THEN {a.color[k + 1]}
    ELSE {[r |-> x, g |-> x, b |-> x, name |-> IF x = 0 THEN NULL ELSE WILD] :
             x \in UninitBytes}

\* printf("%s", name): a null or wild pointer is undefined behaviour; the
\* C library prints "(null)" or whatever bytes are there, or the read faults
PrintfS(name) ==
    IF name = NULL
    THEN {[crash |-> FALSE, text |-> NullText], [crash |-> TRUE, text |-> <<>>]}
    ELSE IF name = WILD
    THEN {[crash |-> FALSE, text |-> GarbageText], [crash |-> TRUE, text |-> <<>>]}
    ELSE {[crash |-> FALSE, text |-> name]}

\* line 72
gengpl_header ==
    /\ pc = "gen_header"
    /\ out' = Append(out, HeaderLine)
    /\ gg' = [gg EXCEPT !.j = 0]
    /\ pc' = "gen_outer"
    /\ UNCHANGED <<profile, status, err, eof, cursor, last, starved, call, aco1, aco2,
                   aco, ver, colors, j, cc, rec, hist>>

\* line 74: the outer loop test; gengpl returns when it fails
gengpl_outer ==
    /\ pc = "gen_outer"
    /\ IF gg.j < Printed.len
       THEN gg' = [gg EXCEPT !.i = 0] /\ Goto("gen_inner")
       ELSE gg' = [gg EXCEPT !.j = 0, !.i = 0] /\ Goto("main_done")
    /\ UNCHANGED <<profile, eof, cursor, last, starved, call, aco1, aco2, aco, ver,
                   colors, j, cc, rec, hist>>

\* lines 76-86: one turn of the inner loop; on leaving it, j += cols
gengpl_inner ==
    /\ pc = "gen_inner"
    /\ IF gg.i < Cols /\ gg.j + gg.i # Printed.len
       THEN \E e \in Slot(Printed, gg.j + gg.i) : \E p \in PrintfS(e.name) :
            IF p.crash
            THEN /\ pc' = "crashed"
                 /\ status' = Killed
                 /\ UNCHANGED <<out, err, gg>>
            ELSE /\ out' = Append(out, [kind |-> "color", r |-> e.r, g |-> e.g,
                                        b |-> e.b, text |-> p.text])
                 /\ gg' = [gg EXCEPT !.i = @ + 1]
                 /\ UNCHANGED <<pc, status, err>>
       ELSE /\ gg' = [gg EXCEPT !.j = @ + Cols, !.i = 0]
            /\ Goto("gen_outer")
    /\ UNCHANGED <<profile, eof, cursor, last, starved, call, aco1, aco2, aco, ver,
                   colors, j, cc, rec, hist>>

Next ==
    \/ readaco_version
    \/ readaco_count
    \/ readaco_alloc
    \/ readaco_loop
    \/ convertcolor_cspace
    \/ convertcolor_skip4
    \/ convertcolor_skipx
    \/ convertcolor_skiplen
    \/ convertcolor_skipname
    \/ convertcolor_r
    \/ convertcolor_g
    \/ convertcolor_b
    \/ convertcolor_z
    \/ convertcolor_unk
    \/ convertcolor_namelen
    \/ convertcolor_name
    \/ convertcolor_term
    \/ readaco_continue
    \/ readaco_store
    \/ main_first
    \/ main_second
    \/ main_nodata
    \/ main_done
    \/ gengpl_header
    \/ gengpl_outer
    \/ gengpl_inner

Spec == Init /\ [][Next]_vars

(***************************************************************************)
(* What the properties below speak of.                                     *)
(***************************************************************************)
\* the palette of record set c: under construction, or returned to main
Pal(c) == IF c = call /\ aco # NoAco THEN aco ELSE IF c = 1 THEN aco1 ELSE aco2

\* both readaco calls have returned
BothReturned == call = 3

\* the record set whose palette main hands to gengpl; 0 for none
Emitted == IF ~BothReturned THEN 0
           ELSE IF aco2 # NoAco THEN 2 ELSE IF aco1 # NoAco THEN 1 ELSE 0

\* the color lines written so far (all of out but the header)
ColorLines == IF out = <<>> THEN <<>> ELSE Tail(out)

IsRGB(rc) == rc.cs = 0

AllRGB(c) == \A k \in 1..Len(hist[c].recs) : IsRGB(hist[c].recs[k])

\* the process ended by exit() or by main returning
Exited == pc = "exited"

(***************************************************************************)
(* C8.  readword returns -1 exactly when fewer than 2 bytes remain at the  *)
(* cursor (0 or 1 byte); otherwise it returns hi*256+lo of the next two    *)
(* bytes, a value in 0..65535, and advances the cursor by exactly 2.       *)
(***************************************************************************)
C8_ReadwordResult ==
    last.from >= 0 =>
        /\ (last.ret = -1) <=> (last.n < 2)
        /\ last.n = 2 =>
              /\ last.ret = last.buf0 * 256 + last.buf1
              /\ last.ret \in 0..65535
              /\ cursor = last.from + 2

(***************************************************************************)
(* C3.  Once a version word 1 or 2 has been read, a later word of the      *)
(* record set for which fewer than 2 bytes remain ends the program with    *)
(* status 1 and the "Unexpected end of file!" diagnostic.                  *)
(***************************************************************************)
C3_ShortInputIsFatal ==
    (Halted /\ starved # 0 /\ hist[IF starved = 0 THEN 1 ELSE starved].whole) =>
        /\ status = 1
        /\ err # <<>>
        /\ err[Len(err)] = EofMsg

(***************************************************************************)
(* C4.  A run that ends with status 1 has written nothing to stdout, and   *)
(* nothing is written to stdout before both readaco calls have returned.   *)
(***************************************************************************)
C4_NoOutputOnFailure ==
    /\ status = 1 => out = <<>>
    /\ out # <<>> => BothReturned

\* a failure in the second record set, after a first palette with colors
C4_Witness ==
    /\ Exited
    /\ status = 1
    /\ call = 2
    /\ aco1 # NoAco
    /\ aco1.len > 0
    /\ hist[2].ver \in {1, 2}

(***************************************************************************)
(* C7.  In a record set whose color records all have discriminator 0 the   *)
(* palette holds one entry per record read, count entries once the set is  *)
(* read; the k-th entry's r, g, b are floor(w/256) of the k-th record's    *)
(* three component words, each in 0..255; the color lines written carry    *)
(* these triples in stream order.                                          *)
(***************************************************************************)
C7_Triple(rc) == <<rc.w[1] \div 256, rc.w[2] \div 256, rc.w[3] \div 256>>

C7_ScaledComponents ==
    \A c \in 1..2 :
        (Pal(c) # NoAco /\ AllRGB(c)) =>
            LET p == Pal(c)
                rs == hist[c].recs
            IN  /\ DOMAIN p.color = 1..Len(rs)
                /\ c < call => Len(rs) = hist[c].count /\ p.len = hist[c].count
                /\ \A k \in 1..Len(rs) :
                      /\ <<p.color[k].r, p.color[k].g, p.color[k].b>> = C7_Triple(rs[k])
                      /\ \A x \in {p.color[k].r, p.color[k].g, p.color[k].b} :
                            x \in 0..255
                /\ Emitted = c =>
                      /\ Len(ColorLines) <= Len(rs)
                      /\ \A k \in 1..Len(ColorLines) :
                            <<ColorLines[k].r, ColorLines[k].g, ColorLines[k].b>>
                                = C7_Triple(rs[k])

\* two RGB records with different red components, both printed
C7_Witness ==
    /\ Exited
    /\ status = 0
    /\ Emitted # 0
    /\ AllRGB(Emitted)
    /\ hist[Emitted].count = 2
    /\ Len(ColorLines) = 2
    /\ ColorLines[1].r = 255
    /\ ColorLines[2].r = 0
    /\ ColorLines[1].g = 1

(***************************************************************************)
(* C5.  As claimed: for a version 2 RGB record with name-length word       *)
(* L >= 1 the name stored and printed has exactly L-1 characters, the i-th *)
(* a space if the i-th unit is above 255 and the unit's byte otherwise.    *)
(***************************************************************************)
C5_Conv(u) == IF u > 255 THEN 32 ELSE u

C5_Named(c, k) ==
    /\ hist[c].ver = 2
    /\ IsRGB(hist[c].recs[k])
    /\ hist[c].recs[k].N >= 1
    /\ k \in DOMAIN Pal(c).color
    /\ Pal(c).color[k].name # NULL

C5_Kept(units) ==
    LET m == IF Len(units) < 255 THEN Len(units) ELSE 255
        zs == {i \in 1..m : units[i] = 0}
        z == IF zs = {} THEN m + 1 ELSE CHOOSE i \in zs : \A x \in zs : i <= x
    IN  [i \in 1..(z - 1) |-> C5_Conv(units[i])]

C9_SameWordsBothPaths ==
    \A c \in 1..2 : \A k \in 1..Len(hist[c].recs) :
        hist[c].ver = 2 => hist[c].recs[k].nwords = 7 + hist[c].recs[k].N

(***************************************************************************)
(* C9, amended.  For N in 1..65535 both paths consume 7 + N words and      *)
(* leave the cursor 2*(7+N) bytes further (one less when the stream ends   *)
(* inside the last word).  For N = 0 the RGB path consumes 8 words, the    *)
(* skipped path 7.                                                         *)
(***************************************************************************)
C9_SameWordsNamed ==
    \A c \in 1..2 : \A k \in 1..Len(hist[c].recs) :
        LET rc == hist[c].recs[k]
        IN  hist[c].ver = 2 =>
                /\ rc.N >= 1 =>
                      /\ rc.nwords = 7 + rc.N
                      /\ rc.to - rc.from \in {2 * (7 + rc.N) - 1, 2 * (7 + rc.N)}
                /\ rc.N = 0 => rc.nwords = (IF IsRGB(rc) THEN 8 ELSE 7)

\* an RGB and a skipped record with the same name length, one after the
\* other, the second read from where the first ended
C9_Witness ==
    \E c \in 1..2 :
        /\ hist[c].ver = 2
        /\ Len(hist[c].recs) = 2
        /\ IsRGB(hist[c].recs[1])
        /\ ~IsRGB(hist[c].recs[2])
        /\ hist[c].recs[1].N = 2
        /\ hist[c].recs[2].N = 2
        /\ hist[c].recs[2].from = hist[c].recs[1].to
        /\ hist[c].recs[1].to - hist[c].recs[1].from
              = hist[c].recs[2].to - hist[c].recs[2].from

(***************************************************************************)
(* C1.  The number of color lines gengpl writes is the declared count of   *)
(* the emitted record set minus the number of its non-RGB records, and the *)
(* lines are the RGB records' values in stream order, nothing standing in  *)
(* for a skipped record.                                                   *)
(***************************************************************************)
C1_SkippedOmitted ==
    (Exited /\ status = 0 /\ Emitted # 0) =>
        LET rs == hist[Emitted].recs
            rgb == SelectSeq(rs, IsRGB)
        IN  /\ Len(ColorLines) = hist[Emitted].count - (Len(rs) - Len(rgb))
            /\ \A k \in 1..Len(ColorLines) :
                  <<ColorLines[k].r, ColorLines[k].g, ColorLines[k].b>>
                      = C7_Triple(rgb[k])

(***************************************************************************)
(* C6.  The line of an entry that has no name (every RGB entry of a        *)
(* version 1 record set) is "<r> <g> <b> " followed by the empty string.   *)
(***************************************************************************)
C6_AbsentNameEmpty ==
    \A k \in 1..Len(ColorLines) :
        ( /\ Pal(Emitted).ver = 1
          /\ k \in DOMAIN Pal(Emitted).color
          /\ Pal(Emitted).color[k].name = NULL ) => ColorLines[k].text = <<>>

(***************************************************************************)
(* C2.  After its two readaco calls main emits the second palette if there *)
(* is one, else the first if there is one, else writes nothing to stdout   *)
(* and "No data!" to stderr; in all three cases the process exits with     *)
(* status 0.                                                               *)
(***************************************************************************)
C2_SelectAndExit ==
    (BothReturned /\ Halted) =>
        /\ status = 0
        /\ aco2 # NoAco => gg.sel = 2
        /\ (aco2 = NoAco /\ aco1 # NoAco) => gg.sel = 1
        /\ (aco2 = NoAco /\ aco1 = NoAco) =>
              /\ out = <<>>
              /\ \E i \in 1..Len(err) : err[i] = <<"No data!">>

(***************************************************************************)
(* C10.  For every input the program terminates with exit status 0 or 1,   *)
(* having parsed at most two record sets: a state from which the program   *)
(* takes no further step is one where it has exited with status 0 or 1.    *)
(***************************************************************************)
C10_EndsWithExitStatus ==
    /\ call \in 1..3
    /\ (~ENABLED Next) => (Exited /\ status \in {0, 1})

\* the program does stop, by exit or by a fault, on every input
FairSpec == Spec /\ WF_vars(Next)

Stops == <>Halted

====
